---- MODULE Spec2Model ----
(***************************************************************************)
(* Terminal-control ops of runtime/ops/tty.rs: op_stdin_set_raw (POSIX and *)
(* Windows branches), op_isatty and op_console_size.                       *)
(*                                                                         *)
(* Flag words are naturals handled bit by bit; an Option<T> is a sequence  *)
(* of length 0 (None) or 1 (Some).                                         *)
(***************************************************************************)
EXTENDS Integers, Sequences, FiniteSets

VARIABLES
  platform,     \* "unix" or "windows": the cfg branch compiled in
  files,        \* resource table: rid -> kind of the std file behind it
  dev_mode,     \* termios attributes of the stdin device (POSIX)
  tty_mode,     \* meta_data.tty.mode of rid 0: Option<Termios>
  console_mode, \* console mode word of the stdin console (Windows)
  sizes,        \* rid -> window size of the terminal behind it
  result,       \* the caller's buffer of op_console_size: [cols, rows]
  out,          \* the caller's buffer of op_isatty: one byte
  last,         \* the most recent op call: arguments, syscalls made, result
  prev,         \* the op call before `last`
  mutex,        \* the mutex of rid 0's metadata: "free" or "held"
  frame,        \* the op_stdin_set_raw call in progress: its place and locals
  start_mode    \* the termios attributes the stdin device started with

vars == <<platform, files, dev_mode, tty_mode, console_mode, sizes, result,
          out, last, prev, mutex, frame, start_mode>>

(***************************************************************************)
(* Bounds of the model.                                                    *)
(***************************************************************************)
\* control characters VMIN and VTIME start anywhere in 0..MaxCc
MaxCc == 1

(***************************************************************************)
(* Bit arithmetic on flag words.                                           *)
(***************************************************************************)
RECURSIVE BitAnd(_, _)
BitAnd(a, b) ==
  IF a = 0 \/ b = 0 THEN 0
  ELSE (a % 2) * (b % 2) + 2 * BitAnd(a \div 2, b \div 2)

RECURSIVE BitOr(_, _)
BitOr(a, b) ==
  IF a = 0 THEN b
  ELSE IF b = 0 THEN a
  ELSE (IF a % 2 = 1 \/ b % 2 = 1 THEN 1 ELSE 0) + 2 * BitOr(a \div 2, b \div 2)

\* a & !b : the complement is taken within the word, so the result keeps
\* exactly the bits of a that are not bits of b
AndNot(a, b) == a - BitAnd(a, b)

None == << >>
Some(v) == << v >>

(***************************************************************************)
(* POSIX termios flags (Linux values) named by op_stdin_set_raw.           *)
(***************************************************************************)
BRKINT == \h0002
ICRNL  == \h0100
INPCK  == \h0010
ISTRIP == \h0020
IXON   == \h0400
CS8    == \h0030
ECHO   == \h0008
ICANON == \h0002
IEXTEN == \h8000
ISIG   == \h0001
VTIME  == 5
VMIN   == 6
VINTR  == 0

CcIndices == {VINTR, VTIME, VMIN}

\* The starting modes of the stdin device: a plain terminal default, a mode
\* with every flag the op clears set, and modes that are already partly raw.
StartInputFlags   == {\h4500, \h4532}
StartControlFlags == {\h00bf, \h01af}
StartLocalFlags   == {\h8a3b, \h8a3a, \h0a30}
StartModes ==
  { [input_flags |-> i, output_flags |-> 5, control_flags |-> c,
     local_flags |-> l,
     control_chars |-> [x \in CcIndices |->
                          IF x = VMIN THEN vmin
                          ELSE IF x = VTIME THEN vtime ELSE 3]] :
      i \in StartInputFlags, c \in StartControlFlags, l \in StartLocalFlags,
      vmin \in 0..MaxCc, vtime \in 0..MaxCc }

(***************************************************************************)
(* op_stdin_set_raw, POSIX branch.                                         *)
(***************************************************************************)
\* a bug variant: ISIG is cleared whatever cbreak is
make_raw_isig_always_cleared(raw, cbreak) ==
  [raw EXCEPT
     !.input_flags =
        AndNot(@, BitOr(BRKINT, BitOr(ICRNL, BitOr(INPCK, BitOr(ISTRIP, IXON))))),
     !.control_flags = BitOr(@, CS8),
     !.local_flags =
        AndNot(@, BitOr(ECHO, BitOr(ICANON, BitOr(IEXTEN, ISIG)))),
     !.control_chars = [@ EXCEPT ![VMIN] = 1, ![VTIME] = 0]]

\* lines 139-156: the raw mode computed from the baseline `raw`
make_raw(raw, cbreak) ==
  LET lf == AndNot(raw.local_flags, BitOr(ECHO, BitOr(ICANON, IEXTEN)))
  IN [raw EXCEPT
        !.input_flags =
           AndNot(@, BitOr(BRKINT, BitOr(ICRNL, BitOr(INPCK, BitOr(ISTRIP, IXON))))),
        !.control_flags = BitOr(@, CS8),
        !.local_flags = IF ~cbreak THEN AndNot(lf, ISIG) ELSE lf,
        !.control_chars = [@ EXCEPT ![VMIN] = 1, ![VTIME] = 0]]

\* a bug variant: the slot is overwritten by every enable call
save_original_mode_overwrite(maybe_tty_mode, original_mode) ==
  Some(original_mode)

\* lines 131-135: the slot after the save step; original_mode is what
\* tcgetattr returns
save_original_mode(maybe_tty_mode, original_mode) ==
  IF maybe_tty_mode = None THEN Some(original_mode) ELSE maybe_tty_mode

\* a bug variant: every enable call modifies the mode the device has now
enable_raw_from_current(cbreak, dev, slot, getOk, setOk) ==
  IF ~getOk
  THEN [ret |-> "IoError", dev |-> dev, slot |-> slot,
        read |-> "failed", apply |-> "none"]
  ELSE LET saved == save_original_mode(slot, dev)
           raw   == make_raw(dev, cbreak)
       IN IF setOk
          THEN [ret |-> "Ok", dev |-> raw, slot |-> saved,
                read |-> "ok", apply |-> "ok"]
          ELSE [ret |-> "IoError", dev |-> dev, slot |-> saved,
                read |-> "ok", apply |-> "failed"]

\* a bug variant: the slot is filled before the result of tcgetattr is
\* tested, so a failed read leaves a zeroed mode saved
enable_raw_save_on_failed_read(cbreak, dev, slot, getOk, setOk) ==
  IF slot = None /\ ~getOk
  THEN [ret |-> "IoError", dev |-> dev,
        slot |-> Some([input_flags |-> 0, output_flags |-> 0,
                       control_flags |-> 0, local_flags |-> 0,
                       control_chars |-> [x \in CcIndices |-> 0]]),
        read |-> "failed", apply |-> "none"]
  ELSE LET saved == save_original_mode(slot, dev)
           raw   == make_raw(saved[1], cbreak)
           read  == IF slot = None THEN "ok" ELSE "none"
       IN IF setOk
          THEN [ret |-> "Ok", dev |-> raw, slot |-> saved,
                read |-> read, apply |-> "ok"]
          ELSE [ret |-> "IoError", dev |-> dev, slot |-> saved,
                read |-> read, apply |-> "failed"]

\* lines 127-157: the enable path. getOk, setOk: whether tcgetattr and
\* tcsetattr succeed when they are called.
enable_raw(cbreak, dev, slot, getOk, setOk) ==
  IF slot = None /\ ~getOk
  THEN [ret |-> "IoError", dev |-> dev, slot |-> slot,
        read |-> "failed", apply |-> "none"]
  ELSE LET saved == save_original_mode(slot, dev)
           raw   == make_raw(saved[1], cbreak)
           read  == IF slot = None THEN "ok" ELSE "none"
       IN IF setOk
          THEN [ret |-> "Ok", dev |-> raw, slot |-> saved,
                read |-> read, apply |-> "ok"]
          ELSE [ret |-> "IoError", dev |-> dev, slot |-> saved,
                read |-> read, apply |-> "failed"]

\* a bug variant: disable turns the cooked flags back on in the current mode
\* instead of writing the saved mode
disable_raw_recompute(dev, slot, setOk) ==
  IF slot = None
  THEN [ret |-> "Ok", dev |-> dev, slot |-> None,
        read |-> "none", apply |-> "none"]
  ELSE IF setOk
  THEN [ret |-> "Ok",
        dev |-> [dev EXCEPT !.local_flags =
                   BitOr(@, BitOr(ECHO, BitOr(ICANON, BitOr(IEXTEN, ISIG))))],
        slot |-> None, read |-> "none", apply |-> "ok"]
  ELSE [ret |-> "IoError", dev |-> dev, slot |-> None,
        read |-> "none", apply |-> "failed"]

\* a bug variant: disable empties the slot and writes nothing back
disable_raw_forget(dev, slot, setOk) ==
  [ret |-> "Ok", dev |-> dev, slot |-> None, read |-> "none", apply |-> "none"]

\* a bug variant: disable with nothing saved is an error
disable_raw_strict(dev, slot, setOk) ==
  IF slot = None
  THEN [ret |-> "IoError", dev |-> dev, slot |-> None,
        read |-> "none", apply |-> "none"]
  ELSE IF setOk
  THEN [ret |-> "Ok", dev |-> slot[1], slot |-> None,
        read |-> "none", apply |-> "ok"]
  ELSE [ret |-> "IoError", dev |-> dev, slot |-> None,
        read |-> "none", apply |-> "failed"]

\* lines 158-163: the disable path; take() empties the slot before the
\* mode is applied
disable_raw(dev, slot, setOk) ==
  IF slot = None
  THEN [ret |-> "Ok", dev |-> dev, slot |-> None,
        read |-> "none", apply |-> "none"]
  ELSE IF setOk
  THEN [ret |-> "Ok", dev |-> slot[1], slot |-> None,
        read |-> "none", apply |-> "ok"]
  ELSE [ret |-> "IoError", dev |-> dev, slot |-> None,
        read |-> "none", apply |-> "failed"]

\* StdFileResource::with_file / with_file_and_metadata: the rid resolves to
\* an open std file, or the op fails before its closure runs
resolves(fs, rid) == rid \in DOMAIN fs /\ fs[rid] # "closed"

\* lines 121-167: the whole call on the POSIX branch
set_raw_unix(file_ok, is_raw, cbreak, dev, slot, getOk, setOk) ==
  IF ~file_ok
  THEN [ret |-> "BadResource", dev |-> dev, slot |-> slot,
        read |-> "none", apply |-> "none"]
  ELSE IF is_raw THEN enable_raw(cbreak, dev, slot, getOk, setOk)
  ELSE disable_raw(dev, slot, setOk)

NoCall == [op |-> "none"]

op_stdin_set_raw_unix ==
  \E is_raw \in BOOLEAN, cbreak \in BOOLEAN, getOk \in BOOLEAN, setOk \in BOOLEAN :
    \* tcgetattr and tcsetattr succeed on a terminal only
    /\ (getOk \/ setOk) => files[0] = "tty"
    /\ LET r == set_raw_unix(resolves(files, 0), is_raw, cbreak,
                             dev_mode, tty_mode, getOk, setOk)
       IN /\ dev_mode' = r.dev
          /\ tty_mode' = r.slot
          /\ last' = [op |-> "set_raw", is_raw |-> is_raw, cbreak |-> cbreak,
                      ret |-> r.ret, read |-> r.read, apply |-> r.apply,
                      pre_dev |-> dev_mode, pre_slot |-> tty_mode]
          /\ prev' = last
    /\ UNCHANGED <<platform, files, console_mode, sizes, result, out,
                   mutex, frame, start_mode>>

\* no call in progress: nobody holds the mutex
Idle == [pc |-> "idle"]

NoCallInProgress ==
  /\ mutex = "free"
  /\ frame = Idle
  /\ start_mode = dev_mode

\* the parts of the state op_console_size and op_isatty use, at rest
NoBuffers ==
  /\ sizes = << >>
  /\ result = <<0, 0>>
  /\ out = <<0>>

InitUnix ==
  /\ platform = "unix"
  /\ files \in [{0} -> {"tty", "file", "closed"}]
  /\ dev_mode \in StartModes
  /\ tty_mode = None
  /\ console_mode = 0
  /\ NoBuffers
  /\ last = NoCall
  /\ prev = NoCall
  /\ NoCallInProgress

Next == op_stdin_set_raw_unix

Spec == InitUnix /\ [][Next]_vars

\* stdin is a terminal and every tcgetattr and tcsetattr succeeds
InitOk == InitUnix /\ files[0] = "tty"

NextOk ==
  /\ op_stdin_set_raw_unix
  /\ last'.read # "failed"
  /\ last'.apply # "failed"

SpecOk == InitOk /\ [][NextOk]_vars

(***************************************************************************)
(* op_stdin_set_raw, Windows branch.                                       *)
(***************************************************************************)
ENABLE_PROCESSED_INPUT        == \h0001
ENABLE_LINE_INPUT             == \h0002
ENABLE_ECHO_INPUT             == \h0004
ENABLE_VIRTUAL_TERMINAL_INPUT == \h0200

\* lines 45-51
COOKED_MODE ==
  BitOr(ENABLE_LINE_INPUT, BitOr(ENABLE_ECHO_INPUT, ENABLE_PROCESSED_INPUT))

\* a bug variant: the complement is taken of the whole right-hand side, so
\* the virtual-terminal bit is cleared instead of set
mode_raw_input_on_misgrouped(original_mode) ==
  AndNot(original_mode, BitOr(COOKED_MODE, ENABLE_VIRTUAL_TERMINAL_INPUT))

\* lines 54-56: & binds tighter than |
mode_raw_input_on(original_mode) ==
  BitOr(AndNot(original_mode, COOKED_MODE), ENABLE_VIRTUAL_TERMINAL_INPUT)

\* lines 59-61
mode_raw_input_off(original_mode) ==
  BitOr(AndNot(original_mode, ENABLE_VIRTUAL_TERMINAL_INPUT), COOKED_MODE)

\* the low three bits of a starting console mode word range over 0..MaxLowBits
MaxLowBits == 7

\* The starting console mode words: the two known baselines 0xf7 and 0x1f7
\* and their neighbours in the cooked bits and the virtual-terminal bit.
WinStartModes ==
  { base + low + vt : base \in {\h00f0, \h01f0}, low \in 0..MaxLowBits,
                      vt \in {0, ENABLE_VIRTUAL_TERMINAL_INPUT} }

\* a bug variant: cbreak is not rejected, the call goes on as for raw mode
set_raw_windows_cbreak_ignored(file, is_raw, cbreak, mode, getOk, setOk) ==
  LET fail(e) == [ret |-> e, dev |-> mode, read |-> "none", apply |-> "none"]
  IN IF file = "closed" THEN fail("BadResource")
     ELSE IF file = "invalid" THEN fail("IoError")
     ELSE IF file = "null" THEN fail("ReferenceError")
     ELSE IF ~getOk
     THEN [ret |-> "IoError", dev |-> mode, read |-> "failed", apply |-> "none"]
     ELSE LET new_mode == IF is_raw THEN mode_raw_input_on(mode)
                          ELSE mode_raw_input_off(mode)
          IN IF ~setOk
             THEN [ret |-> "IoError", dev |-> mode, read |-> "ok",
                   apply |-> "failed"]
             ELSE [ret |-> "Ok", dev |-> new_mode, read |-> "ok",
                   apply |-> "ok"]

\* lines 76-116: the whole call on the Windows branch. file: the kind of the
\* std file behind rid 0; getOk, setOk: whether GetConsoleMode and
\* SetConsoleMode succeed when they are called.
set_raw_windows(file, is_raw, cbreak, mode, getOk, setOk) ==
  LET fail(e) == [ret |-> e, dev |-> mode, read |-> "none", apply |-> "none"]
  IN IF cbreak THEN fail("NotSupported")
     ELSE IF file = "closed" THEN fail("BadResource")
     ELSE IF file = "invalid" THEN fail("IoError")
     ELSE IF file = "null" THEN fail("ReferenceError")
     ELSE IF ~getOk
     THEN [ret |-> "IoError", dev |-> mode, read |-> "failed", apply |-> "none"]
     ELSE LET new_mode == IF is_raw THEN mode_raw_input_on(mode)
                          ELSE mode_raw_input_off(mode)
          IN IF ~setOk
             THEN [ret |-> "IoError", dev |-> mode, read |-> "ok",
                   apply |-> "failed"]
             ELSE [ret |-> "Ok", dev |-> new_mode, read |-> "ok",
                   apply |-> "ok"]

op_stdin_set_raw_windows ==
  \E is_raw \in BOOLEAN, cbreak \in BOOLEAN, getOk \in BOOLEAN, setOk \in BOOLEAN :
    \* GetConsoleMode and SetConsoleMode succeed on a console only
    /\ (getOk \/ setOk) => files[0] = "tty"
    /\ LET r == set_raw_windows(files[0], is_raw, cbreak, console_mode,
                                getOk, setOk)
       IN /\ console_mode' = r.dev
          /\ last' = [op |-> "set_raw", is_raw |-> is_raw, cbreak |-> cbreak,
                      ret |-> r.ret, read |-> r.read, apply |-> r.apply,
                      pre_dev |-> console_mode, pre_slot |-> tty_mode]
          /\ prev' = last
    /\ UNCHANGED <<platform, files, dev_mode, tty_mode, sizes, result, out,
                   mutex, frame, start_mode>>

InitWin ==
  /\ platform = "windows"
  /\ files \in [{0} -> {"tty", "file", "invalid", "null", "closed"}]
  /\ dev_mode = CHOOSE m \in StartModes : TRUE
  /\ tty_mode = None
  /\ console_mode \in WinStartModes
  /\ NoBuffers
  /\ last = NoCall
  /\ prev = NoCall
  /\ NoCallInProgress

NextWin == op_stdin_set_raw_windows

SpecWin == InitWin /\ [][NextWin]_vars

(***************************************************************************)
(* The std files behind the rids of op_isatty and op_console_size.         *)
(***************************************************************************)
StdRids == {0, 1, 2}

\* "invalid" (INVALID_HANDLE_VALUE) and "null" handles exist on Windows only
FileKinds(p) ==
  IF p = "windows" THEN {"tty", "file", "invalid", "null", "closed"}
  ELSE {"tty", "file", "closed"}

(***************************************************************************)
(* op_isatty.                                                              *)
(***************************************************************************)
\* rids 0..MaxRid are asked about; those above 2 are not in the table
MaxRid == 3

\* lines 20-33
get_windows_handle(file) ==
  IF file = "invalid" THEN "IoError"
  ELSE IF file = "null" THEN "ReferenceError"
  ELSE "Ok"

\* a bug variant: a failed terminal probe is returned as an error
op_isatty_not_tty_errors(p, fs, rid, o) ==
  IF ~resolves(fs, rid) THEN [ret |-> "BadResource", out |-> o]
  ELSE IF p = "windows" /\ get_windows_handle(fs[rid]) # "Ok"
  THEN [ret |-> get_windows_handle(fs[rid]), out |-> o]
  ELSE IF fs[rid] # "tty" THEN [ret |-> "IoError", out |-> o]
  ELSE [ret |-> "Ok", out |-> [o EXCEPT ![1] = 1]]

\* lines 171-206: GetConsoleMode(handle) != FALSE and isatty(raw_fd) == 1
\* hold exactly when the file is a terminal
op_isatty(p, fs, rid, o) ==
  IF ~resolves(fs, rid) THEN [ret |-> "BadResource", out |-> o]
  ELSE IF p = "windows" /\ get_windows_handle(fs[rid]) # "Ok"
  THEN [ret |-> get_windows_handle(fs[rid]), out |-> o]
  ELSE [ret |-> "Ok",
        out |-> [o EXCEPT ![1] = IF fs[rid] = "tty" THEN 1 ELSE 0]]

op_isatty_call ==
  \E rid \in 0..MaxRid :
    LET r == op_isatty(platform, files, rid, out)
    IN /\ out' = r.out
       /\ last' = [op |-> "isatty", rid |-> rid, ret |-> r.ret, pre_out |-> out]
       /\ prev' = last
       /\ UNCHANGED <<platform, files, dev_mode, tty_mode, console_mode,
                      sizes, result, mutex, frame, start_mode>>

InitTty ==
  /\ platform \in {"unix", "windows"}
  /\ files \in [StdRids -> FileKinds(platform)]
  /\ dev_mode = CHOOSE m \in StartModes : TRUE
  /\ tty_mode = None
  /\ console_mode = 0
  /\ NoBuffers
  /\ last = NoCall
  /\ prev = NoCall
  /\ NoCallInProgress

NextTty == op_isatty_call

SpecTty == InitTty /\ [][NextTty]_vars

(***************************************************************************)
(* op_console_size.                                                        *)
(***************************************************************************)
\* the window sizes a terminal may have
WinSizes == {[cols |-> 80, rows |-> 24], [cols |-> 132, rows |-> 43]}

\* lines 245-287: GetConsoleScreenBufferInfo / ioctl(TIOCGWINSZ) succeed on a
\* terminal and fail with the OS error otherwise
console_size(p, file, size) ==
  IF file = "tty" THEN [ret |-> "Ok", size |-> size]
  ELSE [ret |-> IF p = "windows" THEN "IoError(ERROR_INVALID_HANDLE)"
                ELSE "IoError(ENOTTY)",
        size |-> size]

\* a bug variant: the buffer is written from a defaulted size before the
\* result of console_size is tested
check_console_size_writes_first(p, fs, sz, res, rid) ==
  IF ~resolves(fs, rid) THEN [ret |-> "BadResource", result |-> res]
  ELSE LET r == console_size(p, fs[rid], sz[rid])
       IN IF r.ret # "Ok" THEN [ret |-> r.ret, result |-> <<0, 0>>]
          ELSE [ret |-> "Ok", result |-> <<r.size.cols, r.size.rows>>]

\* lines 213-224: one probe; the buffer is written only after console_size
\* succeeded
check_console_size(p, fs, sz, res, rid) ==
  IF ~resolves(fs, rid) THEN [ret |-> "BadResource", result |-> res]
  ELSE LET r == console_size(p, fs[rid], sz[rid])
       IN IF r.ret # "Ok" THEN [ret |-> r.ret, result |-> res]
          ELSE [ret |-> "Ok", result |-> <<r.size.cols, r.size.rows>>]

\* a bug variant: the rids are probed from stderr down to stdin
ProbeOrderReversed == <<2, 1, 0>>

\* line 229
ProbeOrder == <<0, 1, 2>>

\* a bug variant: when every probe fails the first failure is returned
RECURSIVE probe_loop_first_error(_, _, _, _, _, _, _)
probe_loop_first_error(p, fs, sz, res, rids, last_result, probes) ==
  IF rids = << >>
  THEN [ret |-> last_result, result |-> res, probes |-> probes]
  ELSE LET r   == check_console_size(p, fs, sz, res, Head(rids))
           log == Append(probes, [rid |-> Head(rids), ret |-> r.ret])
       IN IF r.ret = "Ok"
          THEN [ret |-> r.ret, result |-> r.result, probes |-> log]
          ELSE probe_loop_first_error(p, fs, sz, r.result, Tail(rids),
                 IF last_result = "Ok" THEN r.ret ELSE last_result, log)

\* lines 226-236: the loop over the rids still to probe; probes is the log
\* of the probes made so far
RECURSIVE probe_loop(_, _, _, _, _, _, _)
probe_loop(p, fs, sz, res, rids, last_result, probes) ==
  IF rids = << >>
  THEN [ret |-> last_result, result |-> res, probes |-> probes]
  ELSE LET r   == check_console_size(p, fs, sz, res, Head(rids))
           log == Append(probes, [rid |-> Head(rids), ret |-> r.ret])
       IN IF r.ret = "Ok"
          THEN [ret |-> r.ret, result |-> r.result, probes |-> log]
          ELSE probe_loop(p, fs, sz, r.result, Tail(rids), r.ret, log)

\* lines 208-237
op_console_size(p, fs, sz, res) ==
  probe_loop(p, fs, sz, res, ProbeOrder, "Ok", << >>)

op_console_size_call ==
  LET r == op_console_size(platform, files, sizes, result)
  IN /\ result' = r.result
     /\ last' = [op |-> "console_size", ret |-> r.ret, probes |-> r.probes,
                 pre_result |-> result]
     /\ prev' = last
     /\ UNCHANGED <<platform, files, dev_mode, tty_mode, console_mode, sizes,
                    out, mutex, frame, start_mode>>

InitSize ==
  /\ platform \in {"unix", "windows"}
  /\ files \in [StdRids -> FileKinds(platform)]
  /\ sizes \in [StdRids -> WinSizes]
  /\ result \in {<<0, 0>>, <<100, 30>>}
  /\ out = <<0>>
  /\ dev_mode = CHOOSE m \in StartModes : TRUE
  /\ tty_mode = None
  /\ console_mode = 0
  /\ last = NoCall
  /\ prev = NoCall
  /\ NoCallInProgress

NextSize == op_console_size_call

SpecSize == InitSize /\ [][NextSize]_vars

(***************************************************************************)
(* op_stdin_set_raw on the POSIX branch, statement by statement, with the  *)
(* guard of the metadata mutex.  The guard of line 129 is a local of the   *)
(* block of lines 128-137 and is dropped where the block ends, or when `?` *)
(* leaves it.  The guard of line 160 is a temporary of the scrutinee of    *)
(* the `if let`, and lives to the end of the `if let` statement.           *)
(***************************************************************************)
\* the call returns: its record goes to `last`
Return(ret, read, apply) ==
  /\ last' = [op |-> "set_raw", is_raw |-> frame.is_raw,
              cbreak |-> frame.cbreak, ret |-> ret, read |-> read,
              apply |-> apply, pre_dev |-> frame.pre_dev,
              pre_slot |-> frame.pre_slot]
  /\ prev' = last
  /\ frame' = Idle

\* lines 121-127: the rid is resolved and the closure entered
StepCall ==
  /\ frame.pc = "idle"
  /\ \E is_raw \in BOOLEAN, cbreak \in BOOLEAN :
       LET f == [pc |-> IF is_raw THEN "enable_lock" ELSE "disable_take",
                 is_raw |-> is_raw, cbreak |-> cbreak, read |-> "none",
                 local |-> None, pre_dev |-> dev_mode, pre_slot |-> tty_mode]
       IN IF resolves(files, 0)
          THEN frame' = f /\ UNCHANGED <<last, prev>>
          ELSE /\ last' = [op |-> "set_raw", is_raw |-> is_raw,
                           cbreak |-> cbreak, ret |-> "BadResource",
                           read |-> "none", apply |-> "none",
                           pre_dev |-> dev_mode, pre_slot |-> tty_mode]
               /\ prev' = last
               /\ frame' = Idle
  /\ UNCHANGED <<platform, files, dev_mode, tty_mode, console_mode, sizes,
                 result, out, mutex, start_mode>>

\* lines 129-131: the lock is taken and the slot looked at
StepEnableLock ==
  /\ frame.pc = "enable_lock"
  /\ mutex = "free"
  /\ mutex' = "held"
  /\ frame' = [frame EXCEPT !.pc = IF tty_mode = None THEN "enable_read"
                                   ELSE "enable_clone"]
  /\ UNCHANGED <<platform, files, dev_mode, tty_mode, console_mode, sizes,
                 result, out, last, prev, start_mode>>

\* lines 133-134: tcgetattr under the lock; `?` drops the guard on failure
StepEnableRead ==
  /\ frame.pc = "enable_read"
  /\ \E getOk \in BOOLEAN :
       /\ getOk => files[0] = "tty"
       /\ IF getOk
          THEN /\ tty_mode' = save_original_mode(tty_mode, dev_mode)
               /\ frame' = [frame EXCEPT !.pc = "enable_clone", !.read = "ok"]
               /\ UNCHANGED <<mutex, last, prev>>
          ELSE /\ mutex' = "free"
               /\ Return("IoError", "failed", "none")
               /\ UNCHANGED tty_mode
  /\ UNCHANGED <<platform, files, dev_mode, console_mode, sizes, result, out,
                 start_mode>>

\* lines 136-137: the saved mode is cloned and the block ends: guard dropped
StepEnableClone ==
  /\ frame.pc = "enable_clone"
  /\ frame' = [frame EXCEPT !.pc = "enable_apply", !.local = tty_mode]
  /\ mutex' = "free"
  /\ UNCHANGED <<platform, files, dev_mode, tty_mode, console_mode, sizes,
                 result, out, last, prev, start_mode>>

\* lines 139-157: the flags are computed and tcsetattr called
StepEnableApply ==
  /\ frame.pc = "enable_apply"
  /\ \E setOk \in BOOLEAN :
       /\ setOk => files[0] = "tty"
       /\ IF setOk
          THEN /\ dev_mode' = make_raw(frame.local[1], frame.cbreak)
               /\ Return("Ok", frame.read, "ok")
          ELSE /\ UNCHANGED dev_mode
               /\ Return("IoError", frame.read, "failed")
  /\ UNCHANGED <<platform, files, tty_mode, console_mode, sizes, result, out,
                 mutex, start_mode>>

\* line 160: lock().tty.mode.take(); with nothing saved the `if let` ends
\* here and its guard is dropped, else the guard lives on into the body
StepDisableTake ==
  /\ frame.pc = "disable_take"
  /\ mutex = "free"
  /\ tty_mode' = None
  /\ IF tty_mode = None
     THEN /\ Return("Ok", "none", "none")
          /\ UNCHANGED mutex
     ELSE /\ mutex' = "held"
          /\ frame' = [frame EXCEPT !.pc = "disable_apply", !.local = tty_mode]
          /\ UNCHANGED <<last, prev>>
  /\ UNCHANGED <<platform, files, dev_mode, console_mode, sizes, result, out,
                 start_mode>>

\* lines 161-162: tcsetattr in the body of the `if let`; the guard is dropped
\* when the statement ends, by `?` or by the closing brace
StepDisableApply ==
  /\ frame.pc = "disable_apply"
  /\ \E setOk \in BOOLEAN :
       /\ setOk => files[0] = "tty"
       /\ IF setOk
          THEN /\ dev_mode' = frame.local[1]
               /\ Return("Ok", "none", "ok")
          ELSE /\ UNCHANGED dev_mode
               /\ Return("IoError", "none", "failed")
  /\ mutex' = "free"
  /\ UNCHANGED <<platform, files, tty_mode, console_mode, sizes, result, out,
                 start_mode>>

NextSteps ==
  \/ StepCall
  \/ StepEnableLock
  \/ StepEnableRead
  \/ StepEnableClone
  \/ StepEnableApply
  \/ StepDisableTake
  \/ StepDisableApply

SpecSteps == InitUnix /\ [][NextSteps]_vars

(***************************************************************************)
(* Properties of op_stdin_set_raw on the POSIX branch (Spec).              *)
(***************************************************************************)
IsEnable(c)  == c.op = "set_raw" /\ c.is_raw
IsDisable(c) == c.op = "set_raw" /\ ~c.is_raw

\* the pre-raw mode an enable call restores to: the mode already saved when
\* it was made, else the device mode it found
OriginalMode(c) == IF c.pre_slot = None THEN c.pre_dev ELSE c.pre_slot[1]

\* C1: the slot holds at most one mode, and an enable call made while a mode
\* is saved leaves the slot as it was, whatever its cbreak value: after
\* consecutive enable calls the slot still holds the device mode the first
\* of them read.
C1_SavedModeNotOverwritten ==
  IsEnable(last) =>
    /\ Len(tty_mode) <= 1
    /\ last.pre_slot # None => tty_mode = last.pre_slot
    /\ (last.pre_slot = None /\ last.read = "ok") => tty_mode = Some(last.pre_dev)
    /\ (IsEnable(prev) /\ prev.pre_slot = None /\ prev.read = "ok")
          => tty_mode = Some(prev.pre_dev)

\* two enable calls in a row with different cbreak values, the first on an
\* empty slot: the slot holds the first call's device mode, the device does not
C1_Witness ==
  /\ IsEnable(last) /\ IsEnable(prev)
  /\ last.ret = "Ok" /\ prev.ret = "Ok"
  /\ prev.pre_slot = None
  /\ last.cbreak # prev.cbreak
  /\ tty_mode = Some(prev.pre_dev)
  /\ dev_mode # prev.pre_dev

\* C2: after two successful enable calls in a row the device mode is the mode
\* a single enable call with the second call's cbreak makes from the original
\* pre-raw mode.
C2_EnableIdempotent ==
  (IsEnable(last) /\ last.ret = "Ok" /\ IsEnable(prev) /\ prev.ret = "Ok")
    => dev_mode = make_raw(OriginalMode(prev), last.cbreak)

\* enable(cbreak = false) then enable(cbreak = true) from a mode with ISIG
\* set: recomputing from the modified mode would have lost ISIG
C2_Witness ==
  /\ IsEnable(last) /\ last.ret = "Ok" /\ last.cbreak
  /\ IsEnable(prev) /\ prev.ret = "Ok" /\ ~prev.cbreak
  /\ prev.pre_slot = None
  /\ BitAnd(prev.pre_dev.local_flags, ISIG) = ISIG
  /\ BitAnd(dev_mode.local_flags, ISIG) = ISIG
  /\ make_raw(last.pre_dev, last.cbreak) # dev_mode

\* C3: a successful enable call followed by a successful disable call leaves
\* the device in its original pre-raw mode and the slot empty: when nothing
\* was saved before the enable call, that is the device mode m the enable
\* call started from, equal in every flag word and control character.
C3_RoundTripRestore ==
  (IsDisable(last) /\ last.ret = "Ok" /\ IsEnable(prev) /\ prev.ret = "Ok")
    => /\ dev_mode = OriginalMode(prev)
       /\ prev.pre_slot = None =>
            /\ dev_mode.input_flags = prev.pre_dev.input_flags
            /\ dev_mode.output_flags = prev.pre_dev.output_flags
            /\ dev_mode.control_flags = prev.pre_dev.control_flags
            /\ dev_mode.local_flags = prev.pre_dev.local_flags
            /\ \A i \in CcIndices :
                 dev_mode.control_chars[i] = prev.pre_dev.control_chars[i]
       /\ tty_mode = None

\* enable on an empty slot changed the flags, VMIN and VTIME; disable
\* brought all of them back
C3_Witness ==
  /\ IsDisable(last) /\ last.ret = "Ok" /\ last.apply = "ok"
  /\ IsEnable(prev) /\ prev.ret = "Ok" /\ prev.pre_slot = None
  /\ last.pre_dev.input_flags # prev.pre_dev.input_flags
  /\ last.pre_dev.control_flags # prev.pre_dev.control_flags
  /\ last.pre_dev.local_flags # prev.pre_dev.local_flags
  /\ last.pre_dev.control_chars[VMIN] # prev.pre_dev.control_chars[VMIN]
  /\ last.pre_dev.control_chars[VTIME] # prev.pre_dev.control_chars[VTIME]
  /\ dev_mode = prev.pre_dev
  /\ tty_mode = None

\* C5: when the apply step of a call fails while a mode is saved, the call
\* returns an I/O error and the slot still holds that mode.
C5_ApplyFailureKeepsSlot ==
  (last.op = "set_raw" /\ last.apply = "failed" /\ last.pre_slot # None)
    => /\ last.ret = "IoError"
       /\ tty_mode = last.pre_slot

\* C6: a disable call with nothing saved, on a descriptor that resolves,
\* returns success, writes nothing to the device and leaves the slot empty.
C6_DisableWithoutSavedIsNoop ==
  (IsDisable(last) /\ last.pre_slot = None /\ resolves(files, 0))
    => /\ last.ret = "Ok"
       /\ last.apply = "none"
       /\ dev_mode = last.pre_dev
       /\ tty_mode = None

\* a second disable right after the disable that consumed the saved mode
C6_Witness ==
  /\ IsDisable(last) /\ last.pre_slot = None /\ last.ret = "Ok"
  /\ IsDisable(prev) /\ prev.pre_slot # None /\ prev.ret = "Ok"
  /\ dev_mode = last.pre_dev

(***************************************************************************)
(* Properties of op_stdin_set_raw on the Windows branch (SpecWin).         *)
(***************************************************************************)
\* C4: the mode transforms round-trip: a successful enable call followed by
\* a successful disable call leaves the console mode word m it started from,
\* mode_raw_input_off(mode_raw_input_on(m)) = m, for every word m.
C4_WinRoundTrip ==
  (IsDisable(last) /\ last.ret = "Ok" /\ IsEnable(prev) /\ prev.ret = "Ok")
    => /\ console_mode = prev.pre_dev
       /\ mode_raw_input_off(mode_raw_input_on(prev.pre_dev)) = prev.pre_dev

\* C7: every call with cbreak = true fails with NotSupported and changes
\* neither the console mode nor the saved state, whatever is_raw is and
\* whatever state the descriptor is in.
C7_WinCbreakNotSupported ==
  (last.op = "set_raw" /\ last.cbreak)
    => /\ last.ret = "NotSupported"
       /\ last.read = "none" /\ last.apply = "none"
       /\ console_mode = last.pre_dev
       /\ tty_mode = last.pre_slot

\* a cbreak call on a console that an earlier enable call put in raw mode
C7_Witness ==
  /\ last.op = "set_raw" /\ last.cbreak /\ last.ret = "NotSupported"
  /\ files[0] = "tty"
  /\ IsEnable(prev) /\ prev.ret = "Ok"
  /\ console_mode = mode_raw_input_on(prev.pre_dev)
  /\ console_mode # prev.pre_dev

(***************************************************************************)
(* Properties of op_console_size (SpecSize).                               *)
(***************************************************************************)
\* the rids whose size query succeeds: those backed by a terminal
Terminals == {rid \in StdRids : files[rid] = "tty"}

Min(S) == CHOOSE x \in S : \A y \in S : x <= y

\* C8: descriptors 0, 1, 2 are probed in that order; the call succeeds with
\* the columns and rows of the lowest-numbered descriptor whose size query
\* succeeds and probes no descriptor after it, the failures before it being
\* swallowed.
C8_FirstSuccessWins ==
  (last.op = "console_size" /\ Terminals # {})
    => LET k == Min(Terminals)
       IN /\ last.ret = "Ok"
          /\ result = <<sizes[k].cols, sizes[k].rows>>
          /\ Len(last.probes) = k + 1
          /\ \A i \in 1..Len(last.probes) : last.probes[i].rid = i - 1
          /\ \A i \in 1..k : last.probes[i].ret # "Ok"

\* only descriptor 2 is a terminal, and 0 and 1 fail in different ways
C8_Witness ==
  /\ last.op = "console_size"
  /\ Terminals = {2}
  /\ files[0] = "closed" /\ files[1] = "file"
  /\ last.ret = "Ok"
  /\ Len(last.probes) = 3
  /\ result = <<sizes[2].cols, sizes[2].rows>>
  /\ result # last.pre_result
  /\ sizes[0] # sizes[2]

\* C9: when the size query fails for all three descriptors the call returns
\* the error of the last attempt, the one on descriptor 2.
C9_LastErrorReturned ==
  (last.op = "console_size" /\ Terminals = {})
    => /\ Len(last.probes) = 3
       /\ last.probes[3].rid = 2
       /\ last.ret # "Ok"
       /\ last.ret = last.probes[3].ret
       /\ last.ret = check_console_size(platform, files, sizes, result, 2).ret

\* all three fail, descriptor 2 with another error than 0 and 1
C9_Witness ==
  /\ last.op = "console_size"
  /\ Terminals = {}
  /\ Len(last.probes) = 3
  /\ last.probes[1].ret # last.probes[3].ret
  /\ last.probes[2].ret # last.probes[3].ret
  /\ last.ret = last.probes[3].ret

(***************************************************************************)
(* Properties of op_isatty (SpecTty).                                      *)
(***************************************************************************)
\* C10: on a descriptor that resolves to an open, structurally valid handle
\* the call never fails: it puts true in the buffer when the handle is a
\* terminal and false when it is not; it fails only when the descriptor does
\* not resolve or the handle is invalid or null.
C10_IsattyNeverFailsOnOpenFile ==
  last.op = "isatty" =>
    /\ (resolves(files, last.rid) /\ files[last.rid] \in {"tty", "file"})
         => /\ last.ret = "Ok"
            /\ out[1] = IF files[last.rid] = "tty" THEN 1 ELSE 0
    /\ last.ret # "Ok"
         => \/ ~resolves(files, last.rid)
            \/ files[last.rid] \in {"invalid", "null"}

\* a regular file asked about right after a terminal: the byte goes from 1
\* to 0 and the call succeeds
C10_Witness ==
  /\ last.op = "isatty" /\ last.ret = "Ok"
  /\ files[last.rid] = "file"
  /\ last.pre_out = <<1>> /\ out = <<0>>
  /\ prev.op = "isatty" /\ prev.ret = "Ok" /\ files[prev.rid] = "tty"

(***************************************************************************)
(* Further properties of op_stdin_set_raw on the POSIX branch (Spec).      *)
(***************************************************************************)
\* C11: reading the device mode never changes the slot. An enable call made
\* with the slot empty whose read of the current mode fails (as every read
\* does when stdin is no terminal) returns an I/O error, leaves the slot empty
\* and writes nothing to the device; an enable call made with a mode saved
\* reads nothing and leaves the slot as it was, whatever mode the device has.
C11_ReadNeverMutatesSlot ==
  IsEnable(last) =>
    /\ (last.pre_slot = None /\ resolves(files, 0)
          /\ (last.read = "failed" \/ files[0] # "tty"))
         => /\ last.ret = "IoError"
            /\ last.read = "failed"
            /\ tty_mode = None
            /\ last.apply = "none"
            /\ dev_mode = last.pre_dev
    /\ last.pre_slot # None
         => /\ tty_mode = last.pre_slot
            /\ last.read = "none"

\* a failed read on a terminal whose slot an earlier disable emptied
C11_Witness ==
  /\ IsEnable(last) /\ last.pre_slot = None /\ last.read = "failed"
  /\ files[0] = "tty"
  /\ last.ret = "IoError" /\ tty_mode = None /\ dev_mode = last.pre_dev
  /\ IsDisable(prev) /\ prev.pre_slot # None /\ prev.ret = "Ok"

\* the flags a successful enable call clears whatever cbreak is; each is a
\* set of bits disjoint from the others, so the sum is their union
ClearedInputFlags == BRKINT + ICRNL + INPCK + ISTRIP + IXON
ClearedLocalFlags == ECHO + ICANON + IEXTEN

\* C12: the mode a successful enable call applies is the baseline b with
\* BRKINT, ICRNL, INPCK, ISTRIP, IXON, ECHO, ICANON and IEXTEN cleared, CS8
\* set, VMIN = 1 and VTIME = 0; ISIG is cleared when cbreak is false and is as
\* in b when cbreak is true; every other flag and control character is as in b.
C12_RawModeFlags ==
  (IsEnable(last) /\ last.ret = "Ok")
    => LET b == OriginalMode(last)
       IN /\ BitAnd(dev_mode.input_flags, ClearedInputFlags) = 0
          /\ AndNot(dev_mode.input_flags, ClearedInputFlags)
               = AndNot(b.input_flags, ClearedInputFlags)
          /\ BitAnd(dev_mode.control_flags, CS8) = CS8
          /\ AndNot(dev_mode.control_flags, CS8) = AndNot(b.control_flags, CS8)
          /\ BitAnd(dev_mode.local_flags, ClearedLocalFlags) = 0
          /\ AndNot(dev_mode.local_flags, ClearedLocalFlags + ISIG)
               = AndNot(b.local_flags, ClearedLocalFlags + ISIG)
          /\ BitAnd(dev_mode.local_flags, ISIG)
               = IF last.cbreak THEN BitAnd(b.local_flags, ISIG) ELSE 0
          /\ dev_mode.output_flags = b.output_flags
          /\ dev_mode.control_chars[VMIN] = 1
          /\ dev_mode.control_chars[VTIME] = 0
          /\ \A i \in CcIndices \ {VMIN, VTIME} :
               dev_mode.control_chars[i] = b.control_chars[i]

\* a cbreak enable from a baseline with ISIG, all five input flags, CS7 and
\* VMIN = 0, VTIME = 1: ISIG stays, the rest changes
C12_Witness ==
  /\ IsEnable(last) /\ last.ret = "Ok" /\ last.cbreak
  /\ last.pre_slot = None
  /\ BitAnd(last.pre_dev.local_flags, ISIG) = ISIG
  /\ BitAnd(dev_mode.local_flags, ISIG) = ISIG
  /\ BitAnd(last.pre_dev.input_flags, ClearedInputFlags) = ClearedInputFlags
  /\ BitAnd(last.pre_dev.control_flags, CS8) # CS8
  /\ last.pre_dev.control_chars[VMIN] = 0
  /\ last.pre_dev.control_chars[VTIME] = 1
  /\ dev_mode.control_chars[VINTR] = 3

(***************************************************************************)
(* Further properties of op_stdin_set_raw on the Windows branch (SpecWin). *)
(***************************************************************************)
\* C13: mode_raw_input_on(m), the word a successful enable call writes, is m
\* with the bits 0x2, 0x4 and 0x1 cleared and the bit 0x200 set, every other
\* bit as in m; it maps 0xf7 to 0x2f0 and 0x1f7 to 0x3f0, and applied twice it
\* gives what it gives applied once.
C13_WinRawInputOn ==
  (IsEnable(last) /\ last.ret = "Ok")
    => LET m == last.pre_dev
       IN /\ console_mode = mode_raw_input_on(m)
          /\ BitAnd(console_mode, \h0002 + \h0004 + \h0001) = 0
          /\ BitAnd(console_mode, \h0200) = \h0200
          /\ AndNot(console_mode, \h0207) = AndNot(m, \h0207)
          /\ m = \h00f7 => console_mode = \h02f0
          /\ m = \h01f7 => console_mode = \h03f0
          /\ mode_raw_input_on(console_mode) = console_mode
          /\ (IsEnable(prev) /\ prev.ret = "Ok") => console_mode = m

\* a second enable on the console the first one took from 0x1f7 to 0x3f0
C13_Witness ==
  /\ IsEnable(last) /\ last.ret = "Ok"
  /\ IsEnable(prev) /\ prev.ret = "Ok"
  /\ prev.pre_dev = \h01f7
  /\ last.pre_dev = \h03f0
  /\ console_mode = \h03f0

\* C14: a disable call without cbreak on a console that has had no enable
\* call, the console calls succeeding, returns success and leaves the console
\* mode word as it was, for every starting word.
C14_WinDisableWithoutEnableIsNoop ==
  (prev.op = "none" /\ IsDisable(last) /\ ~last.cbreak /\ files[0] = "tty"
     /\ last.read # "failed" /\ last.apply # "failed")
    => /\ last.ret = "Ok"
       /\ console_mode = last.pre_dev

(***************************************************************************)
(* The metadata mutex in op_stdin_set_raw on the POSIX branch (SpecSteps). *)
(***************************************************************************)
\* C15: the mutex is held only during the read-modify-save step of enable
\* and the read-and-clear step of disable: no call holds it while it is at
\* the apply step that writes a mode to the device, in either path.
C15_MutexNotHeldDuringApply ==
  frame.pc \in {"enable_apply", "disable_apply"} => mutex = "free"

(***************************************************************************)
(* op_stdin_set_raw on the POSIX branch when no OS call fails (SpecOk).    *)
(***************************************************************************)
\* C16: from an empty slot and device mode m0, every OS call succeeding and
\* nothing else changing the device, after any sequence of calls the device
\* mode is m0 whenever the slot is empty, and the slot holds m0 whenever it
\* holds a mode.
C16_NeverRawWithNothingSaved ==
  /\ tty_mode = None => dev_mode = start_mode
  /\ tty_mode # None => tty_mode = Some(start_mode)

\* back at m0 with the slot empty after enable, enable, disable; and before
\* that disable the device was not at m0
C16_Witness ==
  /\ IsDisable(last) /\ last.pre_slot = Some(start_mode)
  /\ last.pre_dev # start_mode
  /\ IsEnable(prev) /\ prev.pre_slot = Some(start_mode)
  /\ tty_mode = None
  /\ dev_mode = start_mode

(***************************************************************************)
(* The result buffer of op_console_size (SpecSize).                        *)
(***************************************************************************)
\* C17: the buffer is written only by a probe that succeeds. A probe of a
\* descriptor that fails leaves both entries as they were; a call that
\* succeeds leaves the columns and the rows of the one descriptor whose probe
\* succeeded; a call whose three probes fail leaves the buffer as it was
\* before the call.
C17_BufferWrittenOnlyOnSuccess ==
  /\ \A rid \in StdRids :
       LET r == check_console_size(platform, files, sizes, result, rid)
       IN r.ret # "Ok" => r.result = result
  /\ last.op = "console_size" =>
       LET ok == {i \in 1..Len(last.probes) : last.probes[i].ret = "Ok"}
       IN /\ last.ret # "Ok" => (ok = {} /\ result = last.pre_result)
          /\ last.ret = "Ok" =>
               /\ ok = {Len(last.probes)}
               /\ LET rid == last.probes[Len(last.probes)].rid
                  IN /\ result[1] = sizes[rid].cols
                     /\ result[2] = sizes[rid].rows

\* three failed probes, on a buffer that held a size from an earlier call
C17_Witness ==
  /\ last.op = "console_size"
  /\ last.ret # "Ok"
  /\ Len(last.probes) = 3
  /\ files[0] = "file" /\ files[1] = "closed" /\ files[2] = "file"
  /\ last.pre_result = <<100, 30>>
  /\ result = <<100, 30>>

====
